---- MODULE Spec2Model ----
(***************************************************************************)
(* Model of analyze_combined_performance (src/src/Streamlit_fng.py), the   *)
(* price-bracket x Fear/Greed-bracket next-day-gain aggregation, and of    *)
(* the pandas / numpy operations it is built from.                         *)
(*                                                                         *)
(* Numbers.  Close prices are integers (price units).  Fear_Greed scores   *)
(* are integers in hundredths of a point (33.33 is 3333), so the cut       *)
(* points 0 / 33.33 / 66.67 / 100 are exact.  The edges np.linspace        *)
(* produces are kept as exact fractions over a common denominator; a mean  *)
(* is a reduced fraction <<numerator, denominator>>.  A missing value      *)
(* (float NaN, pandas NA) is the empty tuple, a present value v is <<v>>.  *)
(***************************************************************************)
EXTENDS Integers, Sequences, FiniteSets, TLC

\* ------------------------------------------------------------------ bounds
MaxDate     == 3    \* trading dates are 1..MaxDate
MaxBrackets == 2    \* num_brackets ranges over 1..MaxBrackets

\* ------------------------------------------------------- values and tables
NaN == <<>>
isna(x) == x = NaN
notna(x) == x # NaN

Tickers == <<"X", "Y">>            \* in their sort order
TickerOrd(t) == CHOOSE i \in DOMAIN Tickers : Tickers[i] = t

Row(t, d, c, f) == [ticker |-> t, date |-> d, close |-> c, Fear_Greed |-> f]

Max2(a, b) == IF a >= b THEN a ELSE b
Min2(a, b) == IF a <= b THEN a ELSE b
Abs(n) == IF n < 0 THEN -n ELSE n

RECURSIVE GCD(_, _)
GCD(a, b) == IF b = 0 THEN a ELSE GCD(b, a % b)

\* ------------------------------------------------ lines 61-69: filter, sort
\* variant: the ticker filter keeps every row
FilterTicker_all(d, ticker) == d

\* df = df[df['ticker'] == ticker]
FilterTicker(d, ticker) == SelectSeq(d, LAMBDA r : r.ticker = ticker)

\* variants: the date filter keeps every row; the date filter is strict
FilterDate_all(d, target_date) == d
FilterDate_strict(d, target_date) == SelectSeq(d, LAMBDA r : r.date < target_date)

\* df = df[df['date'] <= target_date]
FilterDate(d, target_date) == SelectSeq(d, LAMBDA r : r.date <= target_date)

RowLess(a, b) ==
    \/ TickerOrd(a.ticker) < TickerOrd(b.ticker)
    \/ a.ticker = b.ticker /\ a.date < b.date

RECURSIVE InsertRow(_, _)
InsertRow(r, s) ==
    IF s = <<>> THEN <<r>>
    ELSE IF RowLess(r, s[1]) THEN <<r>> \o s
    ELSE <<s[1]>> \o InsertRow(r, Tail(s))

\* variant: the rows stay in the order of the caller's table
sort_values_none(d) == d

\* df = df.sort_values(['ticker', 'date'])
RECURSIVE sort_values(_)
sort_values(d) ==
    IF d = <<>> THEN <<>>
    ELSE InsertRow(d[Len(d)], sort_values(SubSeq(d, 1, Len(d) - 1)))

\* df.groupby('ticker'): the groups in key order, each with its rows in order
groupby_ticker(d) ==
    LET keys == SelectSeq(Tickers, LAMBDA t : \E i \in DOMAIN d : d[i].ticker = t)
    IN  [k \in DOMAIN keys |->
            [ticker |-> keys[k], group |-> FilterTicker(d, keys[k])]]

\* ------------------------------------------------------- DataFrame.tail(n)
\* variants: every row is kept; one row more than asked for is kept
tail_all(s, n) == s
tail_wide(s, n) == SubSeq(s, Max2(1, Len(s) - n), Len(s))

tail(s, n) ==
    IF n = 0 THEN <<>>
    ELSE IF n > 0 THEN SubSeq(s, Max2(1, Len(s) - n + 1), Len(s))
    ELSE SubSeq(s, Min2(-n, Len(s)) + 1, Len(s))

\* subset_200['close'].min() / .max()
min_close(s) == CHOOSE c \in {s[i].close : i \in DOMAIN s} :
                    \A i \in DOMAIN s : c <= s[i].close
max_close(s) == CHOOSE c \in {s[i].close : i \in DOMAIN s} :
                    \A i \in DOMAIN s : c >= s[i].close

\* ------------------------------------------------------------ np.linspace
\* np.linspace(start, stop, num): num points start + k * (stop - start) / div,
\* div = num - 1, kept as numerators over the denominator den.
linspace_raises(num) == num < 0
linspace(start, stop, num) ==
    IF num = 0 THEN [edges |-> <<>>, den |-> 1]
    ELSE IF num = 1 THEN [edges |-> <<start>>, den |-> 1]
    ELSE [edges |-> [k \in 1..num |-> start * (num - 1) + (k - 1) * (stop - start)],
          den   |-> num - 1]

\* fg_bins = [0, 33.33, 66.67, 100], in hundredths
fg_bins == [edges |-> <<0, 3333, 6667, 10000>>, den |-> 1]
fg_labels == <<"Fear", "Neutral", "Greed">>

\* ------------------------------------------------------------------ pd.cut
\* pd.cut(x, bins=..., include_lowest=True), right-closed intervals.
\* The exception pd.cut raises for these bin edges ("" when it raises none):
\* edges that decrease, or repeated edges unless there are exactly two edges;
\* with no edge at all, reading bins[0] fails.
cut_raises(bins) ==
    LET e == bins.edges
    IN  IF \E i \in 1..(Len(e) - 1) : e[i + 1] < e[i] THEN "ValueError"
        ELSE IF Len(e) = 0 THEN "IndexError"
        ELSE IF Cardinality({e[i] : i \in DOMAIN e}) < Len(e) /\ Len(e) # 2
             THEN "ValueError"
        ELSE ""

\* variant: include_lowest=False, the first interval is open on the left too
cut_code_open(x, bins) ==
    IF isna(x) THEN 0
    ELSE LET e   == bins.edges
             v   == x[1] * bins.den
             ids == Cardinality({i \in DOMAIN e : e[i] < v})
         IN  IF ids = Len(e) \/ ids = 0 THEN 0 ELSE ids

\* variant: right=False, intervals closed on the left: [edge k, edge k+1)
cut_code_left(x, bins) ==
    IF isna(x) THEN 0
    ELSE LET e   == bins.edges
             v   == x[1] * bins.den
             ids == Cardinality({i \in DOMAIN e : e[i] <= v})
         IN  IF ids = Len(e) \/ ids = 0 THEN 0 ELSE ids

\* The category code of the value x (NaN or <<v>>, v in the unit of the
\* edges): ids = bins.searchsorted(x, side='left'); ids[x == bins[0]] = 1;
\* NA where x is NA, ids == len(bins) or ids == 0.  Code 0 is NA, code k is
\* the k-th interval (edge k, edge k+1].
cut_code(x, bins) ==
    IF isna(x) THEN 0
    ELSE LET e   == bins.edges
             v   == x[1] * bins.den
             pos == Cardinality({i \in DOMAIN e : e[i] < v})
             ids == IF v = e[1] THEN 1 ELSE pos
         IN  IF ids = Len(e) \/ ids = 0 THEN 0 ELSE ids

\* _round_frac(x, precision=3) for |x| >= 1: the edge n/den in thousandths,
\* rounded to the nearest thousandth.
round_frac(n, den) == (2 * 1000 * n + den) \div (2 * den)

\* _format_labels: the breaks rounded to 3 decimals, the first one lowered
\* by 10^-3 (right-closed with include_lowest), then
\* IntervalIndex.from_breaks: interval k is (breaks[k], breaks[k+1]].
\* Interval bounds are in thousandths.
format_labels(bins) ==
    LET e      == bins.edges
        breaks == [k \in DOMAIN e |->
                     IF k = 1 THEN round_frac(e[k], bins.den) - 1
                     ELSE round_frac(e[k], bins.den)]
    IN  [k \in 1..(Len(e) - 1) |-> [left |-> breaks[k], right |-> breaks[k + 1]]]

\* ------------------------------------------------- lines 84-93: analysis set
\* variant: the gain since the day before
next_day_gain_back(s, i) ==
    IF i > 1 THEN <<s[i].close - s[i - 1].close>> ELSE NaN

\* variant: the gain in percent of the close
next_day_gain_pct(s, i) ==
    IF i < Len(s) THEN <<((s[i + 1].close - s[i].close) * 100) \div s[i].close>>
    ELSE NaN

\* variant: the gain of the last row is filled with 0
next_day_gain_fill(s, i) ==
    IF i < Len(s) THEN <<s[i + 1].close - s[i].close>> ELSE <<0>>

\* subset_100['next_day_gain'] = subset_100['close'].shift(-1) - subset_100['close']
next_day_gain(s, i) ==
    IF i < Len(s) THEN <<s[i + 1].close - s[i].close>> ELSE NaN

\* subset_100 with its three added columns; the brackets are category codes
add_columns(s, p_bins) ==
    [i \in DOMAIN s |->
        [ticker        |-> s[i].ticker,
         date          |-> s[i].date,
         close         |-> s[i].close,
         Fear_Greed    |-> s[i].Fear_Greed,
         next_day_gain |-> next_day_gain(s, i),
         price_bracket |-> cut_code(<<s[i].close>>, p_bins),
         fg_bracket    |-> cut_code(s[i].Fear_Greed, fg_bins)]]

\* ---------------------------------------------------- line 96: aggregation
RECURSIVE sum_gain(_)
sum_gain(s) ==
    IF s = <<>> THEN 0 ELSE s[1].next_day_gain[1] + sum_gain(Tail(s))

\* variant: the total of the values instead of their mean
mean_total(s) ==
    IF s = <<>> THEN NaN ELSE <<sum_gain(s), 1>>

\* variant: the mean of no value is 0
mean_zero(s) ==
    IF s = <<>> THEN <<0, 1>>
    ELSE LET total == sum_gain(s)
             g     == GCD(Abs(total), Len(s))
         IN  <<total \div g, Len(s) \div g>>

\* mean of the non-missing values, NaN when there is none
mean(s) ==
    IF s = <<>> THEN NaN
    ELSE LET total == sum_gain(s)
             g     == GCD(Abs(total), Len(s))
         IN  <<total \div g, Len(s) \div g>>

\* variant: observed=True, only the cells some row falls in
agg_stats_observed(subset_100, p_labels, ticker) ==
    LET nfg == Len(fg_labels)
        cell(pb, fb) ==
            LET members == SelectSeq(subset_100, LAMBDA r :
                               /\ r.price_bracket = pb
                               /\ r.fg_bracket = fb
                               /\ notna(r.next_day_gain))
            IN  [price_bracket |-> p_labels[pb],
                 fg_bracket    |-> fg_labels[fb],
                 mean          |-> IF members = <<>> THEN NaN
                                   ELSE <<sum_gain(members), Len(members)>>,
                 count         |-> Len(members),
                 ticker        |-> ticker]
    IN  SelectSeq([k \in 1..(Len(p_labels) * nfg) |->
                      cell(((k - 1) \div nfg) + 1, ((k - 1) % nfg) + 1)],
                  LAMBDA c : \E r \in {subset_100[i] : i \in DOMAIN subset_100} :
                      /\ r.price_bracket # 0
                      /\ r.fg_bracket # 0
                      /\ p_labels[r.price_bracket] = c.price_bracket
                      /\ fg_labels[r.fg_bracket] = c.fg_bracket)

\* subset_100.groupby(['price_bracket', 'fg_bracket'], observed=False)
\*     ['next_day_gain'].agg(['mean', 'count']); stats['ticker'] = ticker
\* One row per pair of categories, in category order; rows whose key is NA
\* belong to no group; mean and count skip a missing next_day_gain.
agg_stats(subset_100, p_labels, ticker) ==
    LET nfg == Len(fg_labels)
        cell(pb, fb) ==
            LET members == SelectSeq(subset_100, LAMBDA r :
                               /\ r.price_bracket = pb
                               /\ r.fg_bracket = fb
                               /\ notna(r.next_day_gain))
            IN  [price_bracket |-> p_labels[pb],
                 fg_bracket    |-> fg_labels[fb],
                 mean          |-> mean(members),
                 count         |-> Len(members),
                 ticker        |-> ticker]
    IN  [k \in 1..(Len(p_labels) * nfg) |->
            cell(((k - 1) \div nfg) + 1, ((k - 1) % nfg) + 1)]

\* ------------------------------------------- lines 74-99: one loop iteration
NoBins == [edges |-> <<>>, den |-> 1]

\* The locals a call leaves behind; stage is the last step it completed:
\* "filter" (lines 61-72, no group entered), "continue" (line 77),
\* "linspace" (line 81 raised), "cut" (line 90 raised), "stats" (line 99).
Frame(stage, subset_200, p_bins, subset_100) ==
    [stage |-> stage, subset_200 |-> subset_200, p_bins |-> p_bins,
     subset_100 |-> subset_100]

NoFrame == Frame("filter", <<>>, NoBins, <<>>)

\* variant: only an empty lookback window is skipped
too_short_empty(subset_200) == Len(subset_200) < 1

\* if len(subset_200) < 2: continue  (line 77)
too_short(subset_200) == Len(subset_200) < 2

\* The body of the for loop for one (ticker, group): out is "continue",
\* "append" (stats is appended to results) or "raise" (exc propagates).
loop_body(ticker, group, lookback_window, analysis_window, num_brackets) ==
    LET subset_200 == tail(group, lookback_window)
    IN  IF too_short(subset_200)
        THEN [out |-> "continue", exc |-> "", stats |-> <<>>,
              frame |-> Frame("continue", subset_200, NoBins, <<>>)]
        ELSE IF linspace_raises(num_brackets + 1)
        THEN [out |-> "raise", exc |-> "ValueError", stats |-> <<>>,
              frame |-> Frame("linspace", subset_200, NoBins, <<>>)]
        ELSE
        LET p_bins   == linspace(min_close(subset_200), max_close(subset_200),
                                 num_brackets + 1)
            subset_a == tail(group, analysis_window)
        IN  IF cut_raises(p_bins) # ""
            THEN [out |-> "raise", exc |-> cut_raises(p_bins), stats |-> <<>>,
                  frame |-> Frame("cut", subset_200, p_bins, subset_a)]
            ELSE
            LET subset_100 == add_columns(subset_a, p_bins)
                stats      == agg_stats(subset_100, format_labels(p_bins), ticker)
            IN  [out |-> "append", exc |-> "", stats |-> stats,
                 frame |-> Frame("stats", subset_200, p_bins, subset_100)]

\* for ticker, group in df.groupby('ticker'): ... from the i-th group on
RECURSIVE loop(_, _, _, _, _)
loop(groups, i, a, results, frame) ==
    IF i > Len(groups) THEN [exc |-> "", results |-> results, frame |-> frame]
    ELSE LET b == loop_body(groups[i].ticker, groups[i].group,
                            a.lookback_window, a.analysis_window, a.num_brackets)
         IN  IF b.out = "raise"
             THEN [exc |-> b.exc, results |-> results, frame |-> b.frame]
             ELSE loop(groups, i + 1, a,
                       IF b.out = "append" THEN Append(results, b.stats) ELSE results,
                       b.frame)

\* pd.concat(results): the rows of the frames, one frame after the other
RECURSIVE concat(_)
concat(frames) ==
    IF frames = <<>> THEN <<>> ELSE frames[1] \o concat(Tail(frames))

\* variant: the list outlives the call
new_results_kept(old) == old

\* results = []  (line 59): a fresh list at every call, whatever an earlier call left
new_results(old) == <<>>

\* variant: the call works on the caller's object, which ends as the local df
passed_df_shared(data, local) == local

\* df = df.copy() (line 62): the local df is another object than the table
\* the caller passed, and lines 63-69 and 84 each make a new object again;
\* the columns of lines 87-93 are written to the copy of line 84.  The
\* caller's object after the call:
passed_df(data, local) == data

\* Lines 61-69: the local df
prepare(data, ticker, target_date) ==
    sort_values(FilterDate(FilterTicker(data, ticker), target_date))

\* What a call returns: kind is "empty" (pd.DataFrame(), line 102), "grid"
\* (pd.concat(results), line 104) or "raise" (an exception leaves the call).
Empty == [kind |-> "empty", exc |-> "", rows |-> <<>>]
Grid(rows) == [kind |-> "grid", exc |-> "", rows |-> rows]
Raise(exc) == [kind |-> "raise", exc |-> exc, rows |-> <<>>]
NoRet == [kind |-> "none", exc |-> "", rows |-> <<>>]

\* analyze_combined_performance(df, ticker, target_date, lookback_window,
\* analysis_window, num_brackets): the value returned, the results list and
\* the locals at the end of the call.
analyze_combined_performance(data, a, old_results) ==
    LET d == prepare(data, a.ticker, a.target_date)
        r == loop(groupby_ticker(d), 1, a, new_results(old_results), NoFrame)
    IN  [ret     |-> IF r.exc # "" THEN Raise(r.exc)
                     ELSE IF r.results = <<>> THEN Empty
                     ELSE Grid(concat(r.results)),
         results |-> r.results,
         frame   |-> r.frame,
         data    |-> passed_df(data, d)]

\* ---------------------------------------------------------------- the state
VARIABLES
    df,        \* the caller's table (data)
    args,      \* the arguments of the last call
    results,   \* the results list of the last call
    ret,       \* what the last call returned
    frame,     \* the locals of the last call
    prev,      \* what the call before the last one returned (same arguments)
    edit,      \* how the table was revised between the two calls
    ui,        \* what the matrix block of the dashboard showed
    pc         \* "idle", "called", "edited", "again"

vars == <<df, args, results, ret, frame, prev, edit, ui, pc>>

\* lookback_window=200, analysis_window=100, num_brackets=10 (line 55)
DefaultLookback == 200
DefaultAnalysis == 100
DefaultBrackets == 10

Closes  == {1, 2, 3}
Windows == {1, 2, 3}
\* missing, a Fear reading (20.00), a Greed reading (80.00)
Scores  == {NaN, <<2000>>, <<8000>>}

RECURSIVE dates_asc(_)
dates_asc(D) ==
    IF D = {} THEN <<>>
    ELSE LET d == CHOOSE x \in D : \A y \in D : x <= y
         IN  <<d>> \o dates_asc(D \ {d})

\* The merged table of one ticker: one row per trading date, ascending
series(t, D, c, f) ==
    LET ds == dates_asc(D)
    IN  [i \in DOMAIN ds |-> Row(t, ds[i], c[ds[i]], f[ds[i]])]

Tables ==
    UNION { { series("X", D, c, f) : c \in [D -> Closes], f \in [D -> Scores] } :
            D \in SUBSET (1..MaxDate) }

\* the target date is the last trading date or the one before it
Targets == {MaxDate - 1, MaxDate}

\* Calls for the ticker of the table with every window and bracket count; calls
\* for a ticker the table does not hold with the default arguments.
Args ==
    [ticker : {"X"}, target_date : Targets,
     lookback_window : Windows, analysis_window : Windows,
     num_brackets : 1..MaxBrackets]
    \cup
    [ticker : {"Y"}, target_date : Targets,
     lookback_window : {DefaultLookback}, analysis_window : {DefaultAnalysis},
     num_brackets : {DefaultBrackets}]

\* nothing shown yet
NoUi == [ticker |-> "", date |-> 0, warning |-> FALSE, error |-> FALSE, cols |-> <<>>]

NoArgs == [ticker |-> "", target_date |-> 0, lookback_window |-> 0,
           analysis_window |-> 0, num_brackets |-> 0]

Start(tables) ==
    /\ df \in tables
    /\ args = NoArgs
    /\ results = <<>>
    /\ ret = NoRet
    /\ frame = NoFrame
    /\ prev = NoRet
    /\ edit = "none"
    /\ ui = NoUi
    /\ pc = "idle"

Init == Start(Tables)

\* perf_df = analyze_combined_performance(data, ticker, target_date, ...);
\* df is the caller's table, as the call leaves it.
Call(a) ==
    /\ pc = "idle"
    /\ \E r \in {analyze_combined_performance(df, a, results)} :
           /\ ret' = r.ret
           /\ results' = r.results
           /\ frame' = r.frame
           /\ df' = r.data
    /\ args' = a
    /\ pc' = "called"
    /\ UNCHANGED <<prev, edit, ui>>

\* the same call once more, with identical arguments
CallAgain ==
    /\ pc \in {"called", "edited"}
    /\ \E r \in {analyze_combined_performance(df, args, results)} :
           /\ ret' = r.ret
           /\ results' = r.results
           /\ frame' = r.frame
           /\ df' = r.data
    /\ prev' = ret
    /\ pc' = "again"
    /\ UNCHANGED <<args, edit, ui>>

Next ==
    \/ \E a \in Args : Call(a)
    \/ CallAgain

Spec == Init /\ [][Next]_vars

\* ------------------------------------------- a table revised between calls
\* The data layer delivers another table for the second call: the one it had,
\* except for the trading date d, later than target_date, whose row of ticker
\* t is dropped (cell = NaN) or becomes cell = <<close, Fear_Greed>>.
revise(table, t, d, cell) ==
    SelectSeq(table, LAMBDA r : r.date < d)
    \o (IF isna(cell) THEN <<>> ELSE <<Row(t, d, cell[1], cell[2])>>)
    \o SelectSeq(table, LAMBDA r : r.date > d)

Cells == {NaN} \cup (Closes \X Scores)

EditFuture ==
    /\ pc = "called"
    /\ \E d \in (args.target_date + 1)..MaxDate, cell \in Cells :
          \E revised \in {revise(df, "X", d, cell)} :
              /\ revised # df
              /\ df' = revised
    /\ edit' = "future"
    /\ pc' = "edited"
    /\ UNCHANGED <<args, results, ret, frame, prev, ui>>

\* calls whose target date leaves one or two trading dates after it
ArgsFuture ==
    [ticker : {"X"}, target_date : {MaxDate - 2, MaxDate - 1},
     lookback_window : Windows, analysis_window : Windows,
     num_brackets : {MaxBrackets}]

NextFuture ==
    \/ \E a \in ArgsFuture : Call(a)
    \/ EditFuture
    \/ CallAgain

SpecFuture == Init /\ [][NextFuture]_vars

\* ------------------------------------------------- the five-day scenario
\* closes 100, 102, 98, 101, 103; scores 20, 40, 60, 80, missing
Scenario ==
    <<Row("X", 1, 100, <<2000>>), Row("X", 2, 102, <<4000>>),
      Row("X", 3, 98, <<6000>>),  Row("X", 4, 101, <<8000>>),
      Row("X", 5, 103, NaN)>>

ArgsScenario ==
    [ticker : {"X", "Y"}, target_date : 0..6,
     lookback_window : 1..5, analysis_window : 1..5,
     num_brackets : 1..(MaxBrackets + 1)]

InitScenario == Start({Scenario})

NextScenario ==
    \/ \E a \in ArgsScenario : Call(a)
    \/ CallAgain

SpecScenario == InitScenario /\ [][NextScenario]_vars

\* ------------------------------ a table revised at or before target_date
\* a row of X on every trading date
TablesFull ==
    {series("X", 1..MaxDate, c, f) :
        c \in [1..MaxDate -> Closes], f \in [1..MaxDate -> Scores]}

\* a lookback window that can yield a grid, with an analysis window that
\* leaves rows before it
ArgsRevised ==
    [ticker : {"X"}, target_date : {MaxDate},
     lookback_window : {2, 3}, analysis_window : {1, 2},
     num_brackets : {MaxBrackets}]

\* The rows of the last call's instrument at or before its target_date, and
\* the position of each among them, counted from the most recent one (0)
rows_upto == {i \in DOMAIN df : df[i].ticker = args.ticker /\ df[i].date <= args.target_date}
age(i) == Cardinality({j \in rows_upto : df[j].date > df[i].date})

\* The data layer delivers, for the second call, the table with another
\* Fear_Greed on one trading date that the lookback window of the call
\* reaches and its analysis window does not.
EditLookback ==
    /\ pc = "called"
    /\ \E i \in rows_upto, f \in Scores :
          /\ age(i) < args.lookback_window
          /\ age(i) >= args.analysis_window
          /\ f # df[i].Fear_Greed
          /\ df' = [df EXCEPT ![i].Fear_Greed = f]
    /\ edit' = "lookback"
    /\ pc' = "edited"
    /\ UNCHANGED <<args, results, ret, frame, prev, ui>>

\* The data layer delivers, for the second call, a table that differs on one
\* trading date before the max(lookback_window, analysis_window) most recent
\* ones, of which the table holds that many: the row of the date is dropped,
\* added or changed.
EditOlder ==
    /\ pc = "called"
    /\ \E w \in {Max2(args.lookback_window, args.analysis_window)} :
          /\ Cardinality(rows_upto) >= w
          /\ \E d \in 1..MaxDate, cell \in Cells :
                /\ \A i \in rows_upto : age(i) < w => d < df[i].date
                /\ \E revised \in {revise(df, args.ticker, d, cell)} :
                      /\ revised # df
                      /\ df' = revised
    /\ edit' = "older"
    /\ pc' = "edited"
    /\ UNCHANGED <<args, results, ret, frame, prev, ui>>

InitRevised == Start(TablesFull)

NextRevised ==
    \/ \E a \in ArgsRevised : Call(a)
    \/ EditLookback
    \/ EditOlder
    \/ CallAgain

SpecRevised == InitRevised /\ [][NextRevised]_vars

\* ------------------------- the same rows of the instrument, another table
\* a row of X on every trading date, the sentiment missing or a Fear reading
OrderScores == {NaN, <<2000>>}
TablesOrder ==
    {series("X", 1..MaxDate, c, f) :
        c \in [1..MaxDate -> Closes], f \in [1..MaxDate -> OrderScores]}

ArgsOrder ==
    [ticker : {"X"}, target_date : {MaxDate},
     lookback_window : {MaxDate}, analysis_window : {2, 3},
     num_brackets : {MaxBrackets}]

\* the rows of s in every order
permutations(s) ==
    {[i \in DOMAIN s |-> s[p[i]]] :
        p \in {q \in [DOMAIN s -> DOMAIN s] : \A i, j \in DOMAIN s : q[i] = q[j] => i = j}}

\* The price file lists the same rows in another order (pd.read_csv, line
\* 21, and the left merge, line 51, keep the order of the file).
Shuffle ==
    /\ pc = "called"
    /\ \E t \in permutations(df) :
          /\ t # df
          /\ df' = t
    /\ edit' = "order"
    /\ pc' = "edited"
    /\ UNCHANGED <<args, results, ret, frame, prev, ui>>

\* rows of another ticker, close 3 and a Greed reading, on some trading dates
OtherSeries ==
    {series("Y", D, [d \in D |-> 3], [d \in D |-> <<8000>>]) : D \in SUBSET (1..MaxDate)}

\* The price file holds other rows of the other tickers; the rows of the
\* last call's ticker are the same.
EditOther ==
    /\ pc = "called"
    /\ \E y \in OtherSeries :
          \E t \in {y \o SelectSeq(df, LAMBDA r : r.ticker = args.ticker)} :
              /\ t # df
              /\ df' = t
    /\ edit' = "other"
    /\ pc' = "edited"
    /\ UNCHANGED <<args, results, ret, frame, prev, ui>>

InitOrder == Start(TablesOrder)

NextOrder ==
    \/ \E a \in ArgsOrder : Call(a)
    \/ Shuffle
    \/ EditOther
    \/ CallAgain

SpecOrder == InitOrder /\ [][NextOrder]_vars

\* ------------------------------- lines 136-235: the dashboard's matrix block
\* ticker_data = data[data['ticker'] == selected_ticker].sort_values('date')
\*                   .reset_index(drop=True)                      (line 140)
ticker_data(data, selected_ticker) == sort_values(FilterTicker(data, selected_ticker))

\* variant: the most recent row at or before the date stands in for it
idx_list_prior(td, target_ts) ==
    LET upto == SelectSeq([i \in DOMAIN td |-> i], LAMBDA i : td[i].date <= target_ts)
    IN  IF upto = <<>> THEN <<>> ELSE <<upto[Len(upto)]>>

\* idx_list = ticker_data.index[ticker_data['date'] == target_ts].tolist()
\* (line 187); positions count from 1 here
idx_list(td, target_ts) ==
    SelectSeq([i \in DOMAIN td |-> i], LAMBDA i : td[i].date = target_ts)

\* scenarios (lines 195-201): the positions center_idx - 2 .. center_idx + 2
scenarios(center_idx) == [k \in 1..5 |-> center_idx + k - 3]

\* The loop of lines 206-229 from the k-th scenario on: a position inside
\* ticker_data gets the matrix of a call with the date of its row and the
\* default windows and brackets (line 222), another one "Out of Range"; an
\* exception of the call ends the block (line 233).
RECURSIVE columns(_, _, _, _, _, _)
columns(data, selected_ticker, td, sc, k, cols) ==
    IF k > Len(sc) THEN [error |-> FALSE, cols |-> cols]
    ELSE IF sc[k] < 1 \/ sc[k] > Len(td)
    THEN columns(data, selected_ticker, td, sc, k + 1,
                 Append(cols, [called |-> FALSE, target_date |-> 0, perf_df |-> NoRet]))
    ELSE LET a == [ticker |-> selected_ticker, target_date |-> td[sc[k]].date,
                   lookback_window |-> DefaultLookback,
                   analysis_window |-> DefaultAnalysis,
                   num_brackets |-> DefaultBrackets]
             perf_df == analyze_combined_performance(data, a, <<>>).ret
             col == [called |-> TRUE, target_date |-> a.target_date, perf_df |-> perf_df]
         IN  IF perf_df.kind = "raise"
             THEN [error |-> TRUE, cols |-> Append(cols, col)]
             ELSE columns(data, selected_ticker, td, sc, k + 1, Append(cols, col))

\* Lines 185-234 for the selected ticker and the chosen Matrix Center Date
matrix_block(data, selected_ticker, matrix_date_input) ==
    LET td == ticker_data(data, selected_ticker)
        il == idx_list(td, matrix_date_input)
    IN  IF il = <<>>
        THEN [ticker |-> selected_ticker, date |-> matrix_date_input,
              warning |-> TRUE, error |-> FALSE, cols |-> <<>>]
        ELSE LET r == columns(data, selected_ticker, td, scenarios(il[1]), 1, <<>>)
             IN  [ticker |-> selected_ticker, date |-> matrix_date_input,
                  warning |-> FALSE, error |-> r.error, cols |-> r.cols]

\* The user picks a ticker of the table (line 137) and a date between the
\* first and the last date of its rows (line 183); the block is rendered.
MatrixBlock ==
    /\ pc = "idle"
    /\ \E selected_ticker \in {df[i].ticker : i \in DOMAIN df} :
          \E td \in {ticker_data(df, selected_ticker)} :
              \E matrix_date_input \in td[1].date..td[Len(td)].date :
                  ui' = matrix_block(df, selected_ticker, matrix_date_input)
    /\ pc' = "shown"
    /\ UNCHANGED <<df, args, results, ret, frame, prev, edit>>

NextDashboard == MatrixBlock

SpecDashboard == Init /\ [][NextDashboard]_vars

\* ------------------------------------------------------------ a single call
\* One call for the instrument of the table, as of the last trading date.
ArgsOnce ==
    [ticker : {"X"}, target_date : {MaxDate},
     lookback_window : Windows, analysis_window : Windows,
     num_brackets : 1..MaxBrackets]

NextOnce == \E a \in ArgsOnce : Call(a)

SpecOnce == Init /\ [][NextOnce]_vars

\* ------------------------------------------- calls outside the usual ranges
\* The function takes whatever integers it is given (line 55 has defaults
\* and no check): windows and bracket counts below their smallest useful
\* value, next to the smallest useful ones.
LowWindows  == {-1, 0, 1, 2}
LowBrackets == {-2, -1, 0, 1}

ArgsConfig ==
    [ticker : {"X"}, target_date : {MaxDate},
     lookback_window : LowWindows, analysis_window : LowWindows,
     num_brackets : LowBrackets]

NextConfig == \E a \in ArgsConfig : Call(a)

SpecConfig == Init /\ [][NextConfig]_vars

\* ------------------------------------------- scores at the bracket borders
\* Fear_Greed readings on and next to the edges of fg_bins (hundredths):
\* -0.01, 0, 33.33, 33.34, 66.67, 66.68, 100, 100.01
BorderScores ==
    {<<-1>>, <<0>>, <<3333>>, <<3334>>, <<6667>>, <<6668>>, <<10000>>, <<10001>>}
BorderCloses == {1, 2}

\* a row of X on every trading date
TablesScores ==
    {[d \in 1..MaxDate |-> Row("X", d, c[d], f[d])] :
        c \in [1..MaxDate -> BorderCloses], f \in [1..MaxDate -> BorderScores]}

ArgsScores ==
    [ticker : {"X"}, target_date : {MaxDate},
     lookback_window : {MaxDate}, analysis_window : {MaxDate},
     num_brackets : {1, MaxBrackets}]

InitScores == Start(TablesScores)

NextScores == \E a \in ArgsScores : Call(a)

SpecScores == InitScores /\ [][NextScores]_vars

\* ======================================================================
\* The claims.  What they speak of is read off the caller's table and the
\* arguments, independently of the operators above.
\* ======================================================================
\* ret is the result of a call on the table as it is now
Returned == pc \in {"called", "again"}

\* the observations of the instrument at or before target_date (row numbers)
Obs == {i \in DOMAIN df : df[i].ticker = args.ticker /\ df[i].date <= args.target_date}
\* how many of them are more recent than observation i
Newer(i) == Cardinality({j \in Obs : df[j].date > df[i].date})
LookbackWin == {i \in Obs : Newer(i) < args.lookback_window}
AnalysisWin == {i \in Obs : Newer(i) < args.analysis_window}
LoClose == CHOOSE c \in {df[i].close : i \in LookbackWin} :
               \A i \in LookbackWin : c <= df[i].close
HiClose == CHOOSE c \in {df[i].close : i \in LookbackWin} :
               \A i \in LookbackWin : c >= df[i].close
InRange(i) == LoClose <= df[i].close /\ df[i].close <= HiClose

\* valid input: a valid configuration and at least 2 observations to work on
ValidInput ==
    /\ args.num_brackets >= 1
    /\ args.lookback_window >= 2
    /\ args.analysis_window >= 1
    /\ Cardinality(Obs) >= 2

RECURSIVE SumCount(_)
SumCount(rows) == IF rows = <<>> THEN 0 ELSE rows[1].count + SumCount(Tail(rows))

\* the price bracket (1..num_brackets, 0 for none) the call gave observation i
BracketOf(i) ==
    IF frame.stage # "stats" THEN 0
    ELSE LET ks == {k \in DOMAIN frame.subset_100 :
                        frame.subset_100[k].date = df[i].date}
         IN  IF ks = {} THEN 0 ELSE frame.subset_100[CHOOSE k \in ks : TRUE].price_bracket

\* close c lies in the k-th of the num_brackets equal-width brackets of
\* [LoClose, HiClose]: (edge k, edge k+1], the first one closed on the left
InBracket(k, c) ==
    LET w == HiClose - LoClose
        n == args.num_brackets
    IN  \/ k = 1 /\ c = LoClose
        \/ (k - 1) * w < n * (c - LoClose) /\ n * (c - LoClose) <= k * w

\* C1 (as claimed): for every valid input the call returns a grid of exactly
\* num_brackets * 3 cells, one for each (price bracket, sentiment bracket) pair.
C1_PartitionCompleteness ==
    (Returned /\ ValidInput) =>
        /\ ret.kind = "grid"
        /\ Len(ret.rows) = args.num_brackets * 3
        /\ Cardinality({ret.rows[k].price_bracket : k \in DOMAIN ret.rows})
               = args.num_brackets
        /\ \A k, l \in DOMAIN ret.rows :
               (/\ ret.rows[k].price_bracket = ret.rows[l].price_bracket
                /\ ret.rows[k].fg_bracket = ret.rows[l].fg_bracket) => k = l

\* C2 (as claimed): whenever a valid input yields a grid, the counts of its
\* cells add up to the number of analysis-window observations, the last one
\* excluded, whose sentiment score is defined.
C2_CountConservation ==
    (Returned /\ ValidInput /\ ret.kind = "grid") =>
        SumCount(ret.rows) =
            Cardinality({i \in AnalysisWin : Newer(i) > 0 /\ notna(df[i].Fear_Greed)})

\* C3 (as claimed): for every valid input, every analysis-window observation
\* whose close lies in [min_close, max_close] of the lookback window is given
\* exactly one price bracket, the one that contains its close.
C3_BracketCoverage ==
    (Returned /\ ValidInput) =>
        \A i \in AnalysisWin :
            InRange(i) =>
                /\ BracketOf(i) \in 1..args.num_brackets
                /\ InBracket(BracketOf(i), df[i].close)

\* C4 (as claimed): when the lookback window holds at least 2 observations,
\* all with the same close, the call raises no error and all these prices
\* fall in one price bracket.
C4_DegenerateRange ==
    (Returned /\ ValidInput /\ LoClose = HiClose) =>
        /\ ret.kind # "raise"
        /\ \A i, j \in AnalysisWin :
               (InRange(i) /\ InRange(j)) =>
                   BracketOf(i) = BracketOf(j) /\ BracketOf(i) # 0

\* C5: when the lookback window holds 0 or 1 observations the call returns
\* the empty result, never a grid (and raises nothing).
C5_InsufficientData ==
    (Returned /\ Cardinality(LookbackWin) <= 1) => ret = Empty

\* a call whose lookback window holds exactly one observation although the
\* window asked for is larger
C5_Witness ==
    /\ Returned
    /\ Cardinality(LookbackWin) = 1
    /\ args.lookback_window >= 2
    /\ ret = Empty

\* the call of the concrete scenario: the five-day series, both windows 5,
\* two brackets, every day at or before target_date
ScenarioCall ==
    /\ Returned
    /\ df = Scenario
    /\ args.ticker = "X"
    /\ args.target_date >= 5
    /\ args.lookback_window = 5
    /\ args.analysis_window = 5
    /\ args.num_brackets = 2

\* the grid has the six cells of brackets [98, 100.5] and (100.5, 103] in
\* order, with these <<mean, count>> values
ScenarioGrid(cells) ==
    /\ ret.kind = "grid"
    /\ frame.p_bins = [edges |-> <<196, 201, 206>>, den |-> 2]
    /\ Len(ret.rows) = 6
    /\ \A k \in 1..6 :
          /\ ret.rows[k].fg_bracket = fg_labels[((k - 1) % 3) + 1]
          /\ ret.rows[k].price_bracket.right = (IF k <= 3 THEN 100500 ELSE 103000)
          /\ ret.rows[k].mean = cells[k][1]
          /\ ret.rows[k].count = cells[k][2]

\* C6 (as claimed): ([98,100.5], Fear) mean 2 count 1; ([98,100.5], Neutral)
\* mean -4 count 1; ((100.5,103], Greed) mean 2.5 count 2; every other cell
\* count 0.
C6_ScenarioAsClaimed ==
    ScenarioCall =>
        ScenarioGrid(<< <<<<2, 1>>, 1>>, <<<<-4, 1>>, 1>>, <<NaN, 0>>,
                        <<NaN, 0>>,      <<NaN, 0>>,       <<<<5, 2>>, 2>> >>)

\* C6 (amended): ([98,100.5], Fear) mean 2 count 1; ([98,100.5], Neutral)
\* mean 3 count 1; ((100.5,103], Neutral) mean -4 count 1; ((100.5,103],
\* Greed) mean 2 count 1; the two other cells count 0 and no mean.
C6_Scenario ==
    ScenarioCall =>
        ScenarioGrid(<< <<<<2, 1>>, 1>>, <<<<3, 1>>, 1>>,  <<NaN, 0>>,
                        <<NaN, 0>>,      <<<<-4, 1>>, 1>>, <<<<2, 1>>, 1>> >>)

C6_Witness == ScenarioCall /\ ret.kind = "grid" /\ SumCount(ret.rows) = 4

\* C7: a second call with identical arguments on the same table returns
\* exactly what the first call returned.
C7_Idempotence ==
    (pc = "again" /\ edit = "none") => ret = prev

\* a second call that returns a grid with observations in it
C7_Witness ==
    /\ pc = "again"
    /\ edit = "none"
    /\ ret.kind = "grid"
    /\ SumCount(ret.rows) > 0

\* C8: a table that differs only in observations dated after target_date
\* gives the same result; no row after target_date enters the analysis set,
\* and the last observation at or before target_date has no next-day gain.
C8_FutureDiscarded ==
    /\ (pc = "again" /\ edit = "future") => ret = prev
    /\ (pc # "idle" /\ frame.stage = "stats") =>
          LET s == frame.subset_100
          IN  /\ \A k \in DOMAIN s : s[k].date <= args.target_date
              /\ s # <<>> => isna(s[Len(s)].next_day_gain)

\* the second call, on a table revised after target_date and holding a row
\* after target_date, returns a grid with observations in it
C8_Witness ==
    /\ pc = "again"
    /\ edit = "future"
    /\ \E i \in DOMAIN df : df[i].ticker = args.ticker /\ df[i].date > args.target_date
    /\ ret.kind = "grid"
    /\ SumCount(ret.rows) > 0

\* target_date is the date of no observation of the instrument
TargetAbsent ==
    ~ \E i \in DOMAIN df : df[i].ticker = args.ticker /\ df[i].date = args.target_date

\* the date of the latest observation at or before target_date
LastDate == CHOOSE d \in {df[i].date : i \in Obs} : \A i \in Obs : df[i].date <= d

C10_UnknownInstrument ==
    (Returned /\ (\/ ~ \E i \in DOMAIN df : df[i].ticker = args.ticker
                  \/ \A i \in DOMAIN df :
                        df[i].ticker = args.ticker => args.target_date < df[i].date))
        => ret = Empty

\* a call for an instrument the table does not hold, the table holding
\* enough rows of another one to build a grid from
C10_Witness ==
    /\ Returned
    /\ Len(df) >= 2
    /\ \A i \in DOMAIN df : df[i].ticker # args.ticker /\ df[i].date <= args.target_date
    /\ ret = Empty

\* ======================================================================
\* Configuration values the function does not check (SpecConfig)
\* ======================================================================
\* C11: a call with num_brackets <= 0 ends in an error that reaches the
\* caller; it returns neither a grid nor the empty result.
C11_BadBrackets ==
    (Returned /\ args.num_brackets <= 0) => ret.kind = "raise"

\* C12: a call with lookback_window < 2 (1, 0 or negative) ends in an error
\* that reaches the caller; it returns neither the empty result nor a grid
\* computed over some other window.
C12_BadLookback ==
    (Returned /\ args.lookback_window < 2) => ret.kind = "raise"

\* C13: a call with analysis_window < 1 (0 or negative) ends in an error
\* that reaches the caller; it returns no grid, be it one with count 0
\* everywhere or one computed over other rows.
C13_BadAnalysis ==
    (Returned /\ args.analysis_window < 1) => ret.kind = "raise"

\* ======================================================================
\* The cells of the grid (SpecOnce)
\* ======================================================================
\* the cells of the returned grid are one per (price bracket, sentiment
\* bracket) pair: num_brackets * 3 rows with pairwise distinct keys
FullGrid ==
    /\ ret.kind = "grid"
    /\ Len(ret.rows) = args.num_brackets * 3
    /\ Cardinality({<<ret.rows[k].price_bracket, ret.rows[k].fg_bracket>> :
                        k \in DOMAIN ret.rows}) = args.num_brackets * 3

\* every observation of the analysis window lacks its sentiment score
NoSentiment == \A i \in AnalysisWin : isna(df[i].Fear_Greed)

\* C14: when every observation of the analysis window has a missing
\* sentiment score and the lookback window holds at least 2 observations
\* with distinct closes, the call raises nothing and returns the full grid
\* of num_brackets * 3 cells, each with count = 0.
C14_NoSentiment ==
    (Returned /\ ValidInput /\ LoClose < HiClose /\ NoSentiment)
        => /\ FullGrid
           /\ \A k \in DOMAIN ret.rows : ret.rows[k].count = 0

\* such a call with two brackets and a sentiment score known only outside
\* the analysis window
C14_Witness ==
    /\ Returned /\ ValidInput /\ LoClose < HiClose /\ NoSentiment
    /\ args.num_brackets = 2
    /\ Cardinality(AnalysisWin) = 2
    /\ \E i \in Obs \ AnalysisWin : notna(df[i].Fear_Greed)
    /\ FullGrid
    /\ SumCount(ret.rows) = 0

\* the rows the call kept for observation i in its analysis set
RowsOf(i) ==
    IF frame.stage # "stats" THEN {}
    ELSE {k \in DOMAIN frame.subset_100 : frame.subset_100[k].date = df[i].date}

\* the sentiment bracket (1..3, 0 for none) the call gave observation i
SentimentOf(i) ==
    IF RowsOf(i) = {} THEN 0
    ELSE frame.subset_100[CHOOSE k \in RowsOf(i) : TRUE].fg_bracket

\* the cells of the returned grid that observation i is a member of: those of
\* its price bracket and its sentiment bracket, if its next-day gain is known
CellsOf(i) ==
    IF ret.kind # "grid" THEN {}
    ELSE {c \in DOMAIN ret.rows :
            \E k \in RowsOf(i) :
                LET r == frame.subset_100[k]
                IN  /\ r.price_bracket # 0
                    /\ r.fg_bracket # 0
                    /\ notna(r.next_day_gain)
                    /\ c = (r.price_bracket - 1) * 3 + r.fg_bracket}

KnownSentiment(i) ==
    /\ notna(df[i].Fear_Greed)
    /\ 0 <= df[i].Fear_Greed[1]
    /\ df[i].Fear_Greed[1] <= 10000

\* C15: an observation of the analysis window with a missing sentiment score
\* is in no sentiment bracket and in no cell; one with a known score in
\* [0, 100], the last observation excepted, is in exactly one cell.
C15_SentimentPlacement ==
    (Returned /\ ValidInput) =>
        \A i \in AnalysisWin :
            /\ isna(df[i].Fear_Greed) => (SentimentOf(i) = 0 /\ CellsOf(i) = {})
            /\ (KnownSentiment(i) /\ Newer(i) > 0) => Cardinality(CellsOf(i)) = 1

\* C16: in every computed grid the counts sum to at most the number of
\* observations in the analysis window minus 1: the last observation of the
\* analysis window is counted in no cell.
C16_LastNotCounted ==
    (Returned /\ ret.kind = "grid" /\ args.analysis_window >= 1) =>
        /\ SumCount(ret.rows) <= Cardinality(AnalysisWin) - 1
        /\ \A i \in AnalysisWin : Newer(i) = 0 => CellsOf(i) = {}

\* a grid that counts every observation of a 3-day analysis window but the
\* last, whose sentiment is known and whose close is in the lookback range
C16_Witness ==
    /\ Returned /\ ret.kind = "grid"
    /\ Cardinality(AnalysisWin) = 3
    /\ SumCount(ret.rows) = 2
    /\ \E i \in AnalysisWin : Newer(i) = 0 /\ KnownSentiment(i) /\ InRange(i)

\* the observations of the analysis window that are members of cell c
MembersOf(c) == {i \in AnalysisWin : c \in CellsOf(i)}

\* C17: a cell no observation falls in still appears in the grid, with
\* count = 0 and an undefined mean (never a mean of 0); a cell has a defined
\* mean exactly when its count is > 0.
C17_EmptyCells ==
    (Returned /\ ret.kind = "grid") =>
        /\ FullGrid
        /\ \A c \in DOMAIN ret.rows :
              /\ MembersOf(c) = {} => (ret.rows[c].count = 0 /\ isna(ret.rows[c].mean))
              /\ ret.rows[c].count >= 0
              /\ notna(ret.rows[c].mean) <=> ret.rows[c].count > 0

\* a grid with a cell nothing falls in next to a cell whose mean is 0, the
\* mean of gains that cancel out
C17_Witness ==
    /\ Returned /\ ret.kind = "grid"
    /\ \E c \in DOMAIN ret.rows :
          MembersOf(c) = {} /\ ret.rows[c].count = 0 /\ isna(ret.rows[c].mean)
    /\ \E c \in DOMAIN ret.rows :
          ret.rows[c].count = 2 /\ ret.rows[c].mean = <<0, 1>>

\* ======================================================================
\* The brackets (SpecOnce, SpecScores)
\* ======================================================================
\* the price bracket (0 for none) the call's pd.cut gives the price q / den,
\* den the denominator of the call's edges
PriceCode(q) == cut_code(<<q>>, [edges |-> frame.p_bins.edges, den |-> 1])

\* the price q / den lies in the k-th of n intervals of width (hi - lo) / n
\* that start at lo, each with its upper edge, the first one with its lower
\* edge too
InInterval(k, q, den, lo, hi, n) ==
    LET x == n * (q - lo * den)
    IN  \/ k = 1 /\ x = 0
        \/ (k - 1) * (hi - lo) * den < x /\ x <= k * (hi - lo) * den

\* C18: the price brackets are num_brackets contiguous intervals of equal
\* width (max_close - min_close) / num_brackets whose union is exactly
\* [min_close, max_close] of the lookback window, without gap or overlap:
\* bracket k ends at the edge where bracket k+1 begins, only the first
\* bracket contains its lower edge, every bracket contains its upper edge.
C18_PriceBrackets ==
    (Returned /\ ValidInput /\ frame.stage = "stats") =>
        \E lo \in {LoClose}, hi \in {HiClose} :
            LET e   == frame.p_bins.edges
                den == frame.p_bins.den
                n   == args.num_brackets
            IN  /\ Len(e) = n + 1
                /\ e[1] = lo * den
                /\ e[n + 1] = hi * den
                /\ \A k \in 1..n : n * (e[k + 1] - e[k]) = (hi - lo) * den
                /\ PriceCode(e[1]) = 1
                /\ \A k \in 1..n : PriceCode(e[k + 1]) = k
                /\ \A q \in (e[1] - 1)..(e[n + 1] + 1) :
                      \E code \in {PriceCode(q)} :
                          /\ code \in 0..n
                          /\ \A k \in 1..n :
                                code = k <=> InInterval(k, q, den, lo, hi, n)

\* two brackets over [1, 3]: the close on the inner edge 2 is in the first
\* bracket, like the close 1, and the close 3 is in the second
C18_Witness ==
    /\ Returned /\ ValidInput /\ frame.stage = "stats"
    /\ args.num_brackets = 2 /\ LoClose = 1 /\ HiClose = 3
    /\ \E i \in AnalysisWin : df[i].close = 1 /\ BracketOf(i) = 1
    /\ \E i \in AnalysisWin : df[i].close = 2 /\ BracketOf(i) = 1
    /\ \E i \in AnalysisWin : df[i].close = 3 /\ BracketOf(i) = 2

\* the name of the sentiment bracket the call gave observation i ("" for none)
LabelOf(i) == IF SentimentOf(i) = 0 THEN "" ELSE fg_labels[SentimentOf(i)]

\* C19: a score s is Fear iff 0 <= s <= 33.33, Neutral iff 33.33 < s <= 66.67
\* and Greed iff 66.67 < s <= 100; so exactly 0 or 33.33 is Fear, exactly
\* 66.67 is Neutral and exactly 100 is Greed.  An observation counted in a
\* cell is counted in a cell of that sentiment bracket.
C19_SentimentBrackets ==
    (Returned /\ frame.stage = "stats") =>
        \A i \in AnalysisWin :
            notna(df[i].Fear_Greed) =>
                \E s \in {df[i].Fear_Greed[1]}, l \in {LabelOf(i)} :
                    /\ l = "Fear" <=> (0 <= s /\ s <= 3333)
                    /\ l = "Neutral" <=> (3333 < s /\ s <= 6667)
                    /\ l = "Greed" <=> (6667 < s /\ s <= 10000)
                    /\ \A c \in CellsOf(i) : ret.rows[c].fg_bracket = l

\* scores exactly on the edges: 33.33 counted in a Fear cell, 66.67 counted
\* in a Neutral cell, 100 labelled Greed
C19_Witness ==
    /\ Returned /\ frame.stage = "stats"
    /\ \E i \in AnalysisWin :
          /\ df[i].Fear_Greed = <<3333>> /\ LabelOf(i) = "Fear"
          /\ \E c \in CellsOf(i) : ret.rows[c].fg_bracket = "Fear"
    /\ \E i \in AnalysisWin :
          /\ df[i].Fear_Greed = <<6667>> /\ LabelOf(i) = "Neutral"
          /\ \E c \in CellsOf(i) : ret.rows[c].fg_bracket = "Neutral"
    /\ \E i \in AnalysisWin : df[i].Fear_Greed = <<10000>> /\ LabelOf(i) = "Greed"

\* ======================================================================
\* The next-day gain (SpecOnce)
\* ======================================================================
\* the next-day gain the call computed for observation i
GainOf(i) == frame.subset_100[CHOOSE k \in RowsOf(i) : TRUE].next_day_gain

\* C20: the next-day gain of the i-th observation of the analysis window, in
\* ascending date order, is close[i+1] - close[i], an absolute difference of
\* prices; the last observation of the analysis window has none.
C20_NextDayGain ==
    (Returned /\ frame.stage = "stats" /\ args.analysis_window >= 1) =>
        \A i \in AnalysisWin :
            /\ RowsOf(i) # {}
            /\ Newer(i) = 0 => isna(GainOf(i))
            /\ Newer(i) > 0 =>
                  \E j \in Obs : /\ Newer(j) = Newer(i) - 1
                                 /\ GainOf(i) = <<df[j].close - df[i].close>>

\* closes 1, 3, 1: gains 2 and -2 (200 % and -67 % of the close), none for
\* the last day; the gain 2 is the mean of the only cell that counts one day
C20_Witness ==
    /\ Returned /\ frame.stage = "stats"
    /\ Cardinality(AnalysisWin) = 3
    /\ \E i \in AnalysisWin : Newer(i) = 2 /\ df[i].close = 1 /\ GainOf(i) = <<2>>
    /\ \E i \in AnalysisWin : Newer(i) = 1 /\ df[i].close = 3 /\ GainOf(i) = <<-2>>
    /\ \E i \in AnalysisWin : Newer(i) = 0 /\ df[i].close = 1 /\ isna(GainOf(i))
    /\ \E c \in DOMAIN ret.rows : ret.rows[c].count = 1 /\ ret.rows[c].mean = <<2, 1>>

\* ======================================================================
\* The statistics of a cell (SpecOnce)
\* ======================================================================
\* the observations of the analysis window the call assigned to the pair of
\* brackets of cell c
AssignedTo(c) ==
    {i \in AnalysisWin :
        \E k \in RowsOf(i) :
            /\ frame.subset_100[k].price_bracket # 0
            /\ frame.subset_100[k].fg_bracket # 0
            /\ c = (frame.subset_100[k].price_bracket - 1) * 3
                   + frame.subset_100[k].fg_bracket}

\* the close of the observation that follows observation i (i not the last)
NextClose(i) == df[CHOOSE j \in Obs : Newer(j) = Newer(i) - 1].close

RECURSIVE SumGains(_)
SumGains(S) ==
    IF S = {} THEN 0
    ELSE LET i == CHOOSE x \in S : TRUE
         IN  (NextClose(i) - df[i].close) + SumGains(S \ {i})

\* C21: for every cell with count > 0 the mean is the sum of the next-day
\* gains of exactly the observations assigned to the cell's pair of brackets,
\* divided by the count; the count is the number of those observations that
\* have a next-day gain.
C21_CellMean ==
    (Returned /\ ret.kind = "grid" /\ args.analysis_window >= 1) =>
        \A c \in DOMAIN ret.rows :
            \E with \in {{i \in AssignedTo(c) : Newer(i) > 0}} :
                /\ ret.rows[c].count = Cardinality(with)
                /\ ret.rows[c].count > 0 =>
                      /\ ret.rows[c].mean[2] > 0
                      /\ ret.rows[c].mean[1] * ret.rows[c].count
                            = SumGains(with) * ret.rows[c].mean[2]

\* closes 1, 3, 2 with one sentiment and one bracket: the gains 2 and -1 are
\* in the same cell, whose mean is 1/2 with count 2
C21_Witness ==
    /\ Returned /\ ret.kind = "grid"
    /\ \E c \in DOMAIN ret.rows :
          /\ ret.rows[c].count = 2
          /\ ret.rows[c].mean = <<1, 2>>
          /\ Cardinality(AssignedTo(c)) >= 2

\* ======================================================================
\* The windows (SpecOnce)
\* ======================================================================
DatesOf(rows) == {rows[k].date : k \in DOMAIN rows}

\* the call's lookback set is the min(lookback_window, n) most recent
\* observations and its analysis set the min(analysis_window, n) most
\* recent ones, n the number of observations at or before target_date
WindowsAsClaimed ==
    \E n \in {Cardinality(Obs)} :
        /\ DatesOf(frame.subset_200) = {df[i].date : i \in LookbackWin}
        /\ Len(frame.subset_200) = Min2(args.lookback_window, n)
        /\ DatesOf(frame.subset_100) = {df[i].date : i \in AnalysisWin}
        /\ Len(frame.subset_100) = Min2(args.analysis_window, n)

\* C22: the lookback set is the min(lookback_window, n) most recent
\* observations at or before target_date and the analysis set the
\* min(analysis_window, n) most recent ones; fewer observations than a
\* window size, but at least 2, is no error and the grid is computed over
\* all of them.
C22_WindowTruncation ==
    (Returned /\ ValidInput) =>
        /\ WindowsAsClaimed
        /\ (\/ Cardinality(Obs) < args.lookback_window
            \/ Cardinality(Obs) < args.analysis_window) => ret.kind = "grid"

\* ======================================================================
\* Rows outside the analysis window (SpecRevised)
\* ======================================================================
\* C23: the lookback window only sets the price bracket edges: an
\* observation inside the lookback window and outside the analysis window is
\* in no cell, and changing its sentiment score leaves the whole grid
\* unchanged.
C23_LookbackOnly ==
    /\ (pc = "again" /\ edit = "lookback") => ret = prev
    /\ (Returned /\ ret.kind = "grid" /\ args.analysis_window >= 1) =>
          \A i \in LookbackWin \ AnalysisWin :
              /\ CellsOf(i) = {}
              /\ \A c \in DOMAIN ret.rows : i \notin AssignedTo(c)

\* the second call, after the sentiment of a day of the lookback window
\* before the analysis window became known, returns the same grid with
\* counted observations
C23_Witness ==
    /\ pc = "again" /\ edit = "lookback"
    /\ args.lookback_window = 3 /\ args.analysis_window = 2
    /\ \E i \in LookbackWin \ AnalysisWin : KnownSentiment(i) /\ InRange(i)
    /\ ret.kind = "grid" /\ ret = prev
    /\ SumCount(ret.rows) = 1

\* C30: observations older than both windows have no effect: two series of
\* the instrument that agree on their max(lookback_window, analysis_window)
\* most recent observations at or before target_date, each holding at least
\* that many, produce the same grid.
C30_OlderIgnored ==
    (pc = "again" /\ edit = "older") => ret = prev

\* the second call, on a table whose oldest row differs and lies before both
\* windows of 2 days, returns the same grid with a counted observation
C30_Witness ==
    /\ pc = "again" /\ edit = "older"
    /\ args.lookback_window = 2 /\ args.analysis_window = 2
    /\ Cardinality(Obs) = 3
    /\ ret.kind = "grid" /\ ret = prev
    /\ SumCount(ret.rows) = 1

\* ======================================================================
\* Other rows, another row order (SpecOrder)
\* ======================================================================
\* C24: every row of a non-empty result carries the requested ticker, and
\* rows of other instruments in the table have no influence: two tables that
\* agree on the rows of the requested instrument produce the same grid.
C24_OtherInstruments ==
    /\ (pc = "again" /\ edit = "other") => ret = prev
    /\ (Returned /\ ret.kind = "grid") =>
          \A c \in DOMAIN ret.rows : ret.rows[c].ticker = args.ticker

\* the second call, on a table that now holds enough rows of another ticker
\* for a grid of its own, returns the same grid, tagged X
C24_Witness ==
    /\ pc = "again" /\ edit = "other"
    /\ Cardinality({i \in DOMAIN df : df[i].ticker # args.ticker}) >= 2
    /\ ret.kind = "grid" /\ ret = prev
    /\ SumCount(ret.rows) >= 1
    /\ \A c \in DOMAIN ret.rows : ret.rows[c].ticker = "X"

\* C26: the result does not depend on the row order of the input: with
\* unique dates, any permutation of the rows yields the same grid, the rows
\* being sorted ascending by date before the windows and the gains are
\* computed.
C26_RowOrder ==
    /\ (pc = "again" /\ edit = "order") => ret = prev
    /\ (Returned /\ frame.stage = "stats") =>
          \A k \in 1..(Len(frame.subset_100) - 1) :
              frame.subset_100[k].date < frame.subset_100[k + 1].date

\* the second call, on the rows in descending date order, returns the same
\* grid with counted observations whose gains differ
C26_Witness ==
    /\ pc = "again" /\ edit = "order"
    /\ \A i \in 1..(Len(df) - 1) : df[i].date > df[i + 1].date
    /\ ret.kind = "grid" /\ ret = prev
    /\ SumCount(ret.rows) = 2
    /\ \E c \in DOMAIN ret.rows : ret.rows[c].count = 1 /\ ret.rows[c].mean = <<2, 1>>

ExactRow == \E i \in DOMAIN df : df[i].ticker = ui.ticker /\ df[i].date = ui.date

\* C27: the matrices are computed only when the selected ticker has a
\* trading row dated exactly on the chosen matrix center date; when there is
\* none a warning is shown and analyze_combined_performance is not called at
\* all, not even for the nearest prior trading day.
C27_ExactDate ==
    pc = "shown" =>
        /\ ~ExactRow => (ui.warning /\ ui.cols = <<>>)
        /\ (\E k \in DOMAIN ui.cols : ui.cols[k].called) => ExactRow
        /\ ExactRow => (~ui.warning /\ \E k \in DOMAIN ui.cols : ui.cols[k].called)

\* a date without a row between two trading days of the ticker: the warning
\* and no matrix, although the day before is a trading day
C27_Witness ==
    /\ pc = "shown"
    /\ ~ExactRow
    /\ \E i \in DOMAIN df : df[i].ticker = ui.ticker /\ df[i].date = ui.date - 1
    /\ \E i \in DOMAIN df : df[i].ticker = ui.ticker /\ df[i].date = ui.date + 1
    /\ ui.warning /\ ui.cols = <<>>

\* ======================================================================
\* Values outside the brackets (SpecOnce, SpecScores)
\* ======================================================================
\* C28: with analysis_window larger than lookback_window, an observation of
\* the analysis window whose close lies outside [min_close, max_close] of
\* the lookback window is in no price bracket and in no cell, even when its
\* sentiment and its next-day gain are known; the call still returns a full
\* grid and raises nothing.
C28_OutOfRangeClose ==
    (Returned /\ ValidInput /\ args.analysis_window > args.lookback_window) =>
        \A i \in AnalysisWin :
            ~InRange(i) => /\ ret.kind = "grid"
                           /\ FullGrid
                           /\ BracketOf(i) = 0
                           /\ CellsOf(i) = {}

OutOfRangeScore(i) ==
    /\ notna(df[i].Fear_Greed)
    /\ (df[i].Fear_Greed[1] < 0 \/ df[i].Fear_Greed[1] > 10000)

\* C29: an observation whose sentiment score is present and below 0 or above
\* 100 is treated like one whose score is missing: it is in no sentiment
\* bracket and in no cell, and the call raises nothing.
C29_OutOfRangeScore ==
    (Returned /\ ValidInput) =>
        \A i \in AnalysisWin :
            OutOfRangeScore(i) => /\ ret.kind # "raise"
                                  /\ SentimentOf(i) = 0
                                  /\ CellsOf(i) = {}

====
